---- MODULE Spec2Model ----
(***************************************************************************)
(* The reading-list engine of BuildEternal/411-resources:                  *)
(*   src/final/readinglist/readinglist/models/readinglist_model.py         *)
(*   src/final/reading_list/reading_list/models/reading_list_model.py      *)
(* The two modules hold the same ReadingListModel class; they differ in    *)
(* one place: reading_list_model.py defines get_reading_list_length twice  *)
(* and the later definition (the page total) is the one Python keeps.      *)
(*                                                                         *)
(* A public method runs to its end in one step.  Its body is written as a  *)
(* chain of operators on a call context c: the fields of self the method   *)
(* reads and writes, the clock and the books table at the time of the      *)
(* call, the calls it has made to the collaborators (fetched: the ids      *)
(* asked of the book store; reads: the ids whose update_read_count ran),   *)
(* the exception that ended it (err) and the value last returned (ret).  An operator applied to a context that  *)
(* already carries an exception returns it as it is: the exception         *)
(* propagates, and what was assigned to self before it stays assigned.     *)
(***************************************************************************)
EXTENDS Integers, Sequences, FiniteSets, TLC

\* Book ids the callers use and the store may hold: 1..NumBooks.
NumBooks == 2
\* The clock (time.time()) runs from 0 to MaxTime.
MaxTime == 2
\* self.ttl_seconds = int(os.getenv("TTL", 60)), with TTL=2 in the environment.
ttl_seconds == 2

BookIds == 1..NumBooks

VARIABLES
    impl,                       \* which of the two modules is loaded
    reading_list,               \* self.reading_list
    current_selection_number,   \* self.current_selection_number
    book_cache,                 \* self._book_cache
    ttl,                        \* self._ttl
    now,                        \* time.time()
    db,                         \* ids of the rows of the books table
    ring,                       \* RingModel: self.ring
    boxers,                     \* the rows of the boxers table, by id
    pc,                         \* concurrent callers of add: where each one is
    frame                       \* concurrent callers of add: their local variables

ringVars == <<ring, boxers>>

callerVars == <<pc, frame>>

vars ==
    <<impl, reading_list, current_selection_number, book_cache, ttl, now, db,
      ring, boxers, pc, frame>>

OK == "ok"

(***************************************************************************)
(* Collaborators: book_model.Books and api_utils.get_random, by their use.  *)
(***************************************************************************)

\* Books.length of the row with this id (pages).
PageLength(id) == id + 1

\* A Books row.
Book(id) == [id |-> id, length |-> PageLength(id)]

\* Books.get_book_by_id: the row, or ValueError when there is none.
Books_get_book_by_id(c, book_id) ==
    IF c.err # OK THEN c
    ELSE IF book_id \in c.db
         THEN [c EXCEPT !.fetched = Append(@, book_id), !.ret = Book(book_id)]
         ELSE [c EXCEPT !.fetched = Append(@, book_id), !.err = "ValueError"]

\* Books.update_read_count on a row; the failAt-th call of the method raises.
update_read_count(c, book, failAt) ==
    IF c.err # OK THEN c
    ELSE IF Len(c.reads) + 1 = failAt
         THEN [c EXCEPT !.err = "StoreError"]
         ELSE [c EXCEPT !.reads = Append(@, book.id)]

\* get_random(upper), upper being c.ret: rnd = 0 is a failure of the provider,
\* otherwise its answer.  The bounds it was asked with are kept in asked.
get_random(c, rnd) ==
    IF c.err # OK THEN c
    ELSE IF rnd = 0 THEN [c EXCEPT !.asked = Append(@, c.ret), !.err = "ProviderError"]
         ELSE [c EXCEPT !.asked = Append(@, c.ret), !.ret = rnd]

(***************************************************************************)
(* Python values and list methods.                                         *)
(***************************************************************************)

\* What a caller passes: an int, a string of digits, a string that is no number.
RawInt(n) == [t |-> "int", v |-> n]
RawStr(n) == [t |-> "str", v |-> n]
RawJunk == [t |-> "junk", v |-> 0]

\* int(x): the number, or ValueError.
ParseInt(raw) ==
    IF raw.t = "junk" THEN [ok |-> FALSE, v |-> 0] ELSE [ok |-> TRUE, v |-> raw.v]

InList(s, x) == \E i \in 1..Len(s) : s[i] = x

\* list.index(x): 0-based index of the first x.
ListIndex(s, x) == (CHOOSE i \in 1..Len(s) : s[i] = x /\ \A j \in 1..(i - 1) : s[j] # x) - 1

\* del list[index], 0-based.
ListDel(s, index) == [i \in 1..(Len(s) - 1) |-> IF i <= index THEN s[i] ELSE s[i + 1]]

\* list.remove(x): deletes the first x.
ListRemove(s, x) == ListDel(s, ListIndex(s, x))

\* list.insert(index, x), 0-based; an index past the end appends.
ListInsert(s, index, x) ==
    LET k == IF index > Len(s) THEN Len(s) ELSE index
    IN  [i \in 1..(Len(s) + 1) |-> IF i <= k THEN s[i] ELSE IF i = k + 1 THEN x ELSE s[i - 1]]

(***************************************************************************)
(* ReadingListModel.                                                       *)
(***************************************************************************)

\* The context a public method starts in.
Start ==
    [reading_list |-> reading_list,
     current_selection_number |-> current_selection_number,
     book_cache |-> book_cache,
     ttl |-> ttl,
     now |-> now,
     db |-> db,
     reads |-> << >>,
     fetched |-> << >>,
     asked |-> << >>,
     err |-> OK,
     ret |-> 0]

Raise(c, e) == IF c.err # OK THEN c ELSE [c EXCEPT !.err = e]

\* self._ttl.get(book_id, 0)
TtlGet(c, book_id) == IF book_id \in DOMAIN c.ttl THEN c.ttl[book_id] ELSE 0

\* Mutant: an entry is still taken as valid at its expiry instant.
CacheFreshAtExpiry(c, book_id) == book_id \in DOMAIN c.book_cache /\ TtlGet(c, book_id) >= c.now

\* A cached entry still valid at the time of the call.
CacheFresh(c, book_id) == book_id \in DOMAIN c.book_cache /\ TtlGet(c, book_id) > c.now

\* Mutant: the book is fetched and returned but no entry is kept.
get_book_without_caching(c, book_id) ==
    IF c.err # OK THEN c
    ELSE IF CacheFresh(c, book_id)
         THEN [c EXCEPT !.ret = c.book_cache[book_id]]
         ELSE LET d == Books_get_book_by_id(c, book_id)
              IN  IF d.err # OK THEN [d EXCEPT !.err = "NotFound"] ELSE d

\* Mutant: the store is asked every time, whatever the cache holds.
get_book_ignoring_cache(c, book_id) ==
    IF c.err # OK THEN c
    ELSE LET d == Books_get_book_by_id(c, book_id)
         IN  IF d.err # OK
             THEN [d EXCEPT !.err = "NotFound"]
             ELSE [d EXCEPT !.book_cache = (book_id :> d.ret) @@ @,
                            !.ttl = (book_id :> (c.now + ttl_seconds)) @@ @]

\* Mutant: the expiry is written before the store has answered.
get_book_expiry_written_first(c, book_id) ==
    IF c.err # OK THEN c
    ELSE IF CacheFresh(c, book_id)
         THEN [c EXCEPT !.ret = c.book_cache[book_id]]
         ELSE LET d == Books_get_book_by_id(c, book_id)
                  e == [d EXCEPT !.ttl = (book_id :> (c.now + ttl_seconds)) @@ @]
              IN  IF d.err # OK
                  THEN [e EXCEPT !.err = "NotFound"]
                  ELSE [e EXCEPT !.book_cache = (book_id :> d.ret) @@ @]

get_book_from_cache_or_db(c, book_id) ==
    IF c.err # OK THEN c
    ELSE IF CacheFresh(c, book_id)
         THEN [c EXCEPT !.ret = c.book_cache[book_id]]
         ELSE LET d == Books_get_book_by_id(c, book_id)
              IN  IF d.err # OK
                  THEN [d EXCEPT !.err = "NotFound"]
                  ELSE [d EXCEPT !.book_cache = (book_id :> d.ret) @@ @,
                                 !.ttl = (book_id :> (c.now + ttl_seconds)) @@ @]

check_if_empty(c) ==
    IF c.err # OK THEN c
    ELSE IF Len(c.reading_list) = 0 THEN Raise(c, "EmptyCollection") ELSE c

\* sum(self._get_book_from_cache_or_db(bid).length for bid in self.reading_list)
RECURSIVE SumPages(_, _, _)
SumPages(c, i, total) ==
    IF c.err # OK THEN c
    ELSE IF i > Len(c.reading_list) THEN [c EXCEPT !.ret = total]
    ELSE LET d == get_book_from_cache_or_db(c, c.reading_list[i])
         IN  IF d.err # OK THEN d ELSE SumPages(d, i + 1, total + d.ret.length)

\* Mutant: the sum leaves out the first book.
page_count_skipping_first(c) == SumPages(c, 2, 0)

get_reading_list_page_count(c) == SumPages(c, 1, 0)

\* readinglist_model.py: len(self.reading_list).  reading_list_model.py: the
\* second definition of the name, the page total, replaces the first.
get_reading_list_length(c) ==
    IF c.err # OK THEN c
    ELSE IF impl = "readinglist"
         THEN [c EXCEPT !.ret = Len(c.reading_list)]
         ELSE get_reading_list_page_count(c)

\* Mutant: the book is looked up before the list is asked about it.
validate_book_id_lookup_first(c, book_id, check_in_reading_list) ==
    IF c.err # OK THEN c
    ELSE LET p == ParseInt(book_id)
         IN  IF ~p.ok \/ p.v < 0 THEN Raise(c, "InvalidId")
             ELSE LET d == get_book_from_cache_or_db(c, p.v)
                  IN  IF d.err # OK
                      THEN [d EXCEPT !.err = "IdNotInStore"]
                      ELSE IF check_in_reading_list /\ ~InList(c.reading_list, p.v)
                           THEN Raise(d, "IdNotInCollection")
                           ELSE [d EXCEPT !.ret = p.v]

validate_book_id(c, book_id, check_in_reading_list) ==
    IF c.err # OK THEN c
    ELSE LET p == ParseInt(book_id)
         IN  IF ~p.ok \/ p.v < 0 THEN Raise(c, "InvalidId")
             ELSE IF check_in_reading_list /\ ~InList(c.reading_list, p.v)
                  THEN Raise(c, "IdNotInCollection")
             ELSE LET d == get_book_from_cache_or_db(c, p.v)
                  IN  IF d.err # OK
                      THEN [d EXCEPT !.err = "IdNotInStore"]
                      ELSE [d EXCEPT !.ret = p.v]

validate_selection_number(c, selection_number) ==
    IF c.err # OK THEN c
    ELSE LET p == ParseInt(selection_number)
         IN  IF ~p.ok THEN Raise(c, "InvalidPosition")
             ELSE LET d == get_reading_list_length(c)
                  IN  IF d.err # OK
                      THEN [d EXCEPT !.err = "InvalidPosition"]
                      ELSE IF ~(1 <= p.v /\ p.v <= d.ret)
                           THEN Raise(d, "InvalidPosition")
                           ELSE [d EXCEPT !.ret = p.v]

\* Mutant: the book goes to the front of the list.
add_book_at_front(c, book_id) ==
    LET c1 == validate_book_id(c, book_id, FALSE)
    IN  IF c1.err # OK THEN c1
        ELSE IF InList(c1.reading_list, c1.ret) THEN Raise(c1, "DuplicateId")
        ELSE LET c2 == get_book_from_cache_or_db(c1, c1.ret)
             IN  IF c2.err # OK THEN c2
                 ELSE [c2 EXCEPT !.reading_list = ListInsert(@, 0, c2.ret.id)]

\* Mutant: the check for an id already in the list is left out.
add_book_without_duplicate_check(c, book_id) ==
    LET c1 == validate_book_id(c, book_id, FALSE)
        c2 == get_book_from_cache_or_db(c1, c1.ret)
    IN  IF c2.err # OK THEN c2 ELSE [c2 EXCEPT !.reading_list = Append(@, c2.ret.id)]

add_book_to_reading_list(c, book_id) ==
    LET c1 == validate_book_id(c, book_id, FALSE)
    IN  IF c1.err # OK THEN c1
        ELSE IF InList(c1.reading_list, c1.ret) THEN Raise(c1, "DuplicateId")
        ELSE LET c2 == get_book_from_cache_or_db(c1, c1.ret)
             IN  IF c2.err # OK THEN c2
                 ELSE [c2 EXCEPT !.reading_list = Append(@, c2.ret.id)]

\* Mutant: the last book is taken off the list, whichever id was asked for.
remove_book_by_book_id_popping_last(c, book_id) ==
    LET c1 == validate_book_id(check_if_empty(c), book_id, TRUE)
    IN  IF c1.err # OK THEN c1
        ELSE IF ~InList(c1.reading_list, c1.ret) THEN Raise(c1, "IdNotInCollection")
        ELSE [c1 EXCEPT !.reading_list = ListDel(@, Len(@) - 1)]

remove_book_by_book_id(c, book_id) ==
    LET c1 == validate_book_id(check_if_empty(c), book_id, TRUE)
    IN  IF c1.err # OK THEN c1
        ELSE IF ~InList(c1.reading_list, c1.ret) THEN Raise(c1, "IdNotInCollection")
        ELSE [c1 EXCEPT !.reading_list = ListRemove(@, c1.ret)]

\* Mutant: the selection number is used as the 0-based index.
remove_book_by_selection_number_as_index(c, selection_number) ==
    LET c1 == validate_selection_number(check_if_empty(c), selection_number)
    IN  IF c1.err # OK THEN c1
        ELSE IF c1.ret >= Len(c1.reading_list) THEN Raise(c1, "IndexError")
        ELSE [c1 EXCEPT !.reading_list = ListDel(@, c1.ret)]

\* Mutant: the selection is pulled back into the shortened list.
remove_book_by_selection_number_clamping(c, selection_number) ==
    LET c1 == validate_selection_number(check_if_empty(c), selection_number)
    IN  IF c1.err # OK THEN c1
        ELSE IF c1.ret - 1 >= Len(c1.reading_list) THEN Raise(c1, "IndexError")
        ELSE [c1 EXCEPT !.reading_list = ListDel(@, c1.ret - 1),
                        !.current_selection_number =
                            IF @ > Len(c1.reading_list) - 1 /\ Len(c1.reading_list) > 1
                            THEN Len(c1.reading_list) - 1 ELSE @]

remove_book_by_selection_number(c, selection_number) ==
    LET c1 == validate_selection_number(check_if_empty(c), selection_number)
    IN  IF c1.err # OK THEN c1
        ELSE IF c1.ret - 1 >= Len(c1.reading_list) THEN Raise(c1, "IndexError")
        ELSE [c1 EXCEPT !.reading_list = ListDel(@, c1.ret - 1)]

\* Mutant: the selection goes back to 1 when the list is cleared.
clear_reading_list_resetting_selection(c) ==
    [c EXCEPT !.reading_list = << >>, !.current_selection_number = 1]

\* Mutant: the cache is emptied together with the list.
clear_reading_list_dropping_cache(c) ==
    [c EXCEPT !.reading_list = << >>, !.book_cache = << >>, !.ttl = << >>]

\* Mutant: the error of check_if_empty on an empty list is not caught.
clear_reading_list_failing_on_empty(c) ==
    LET c1 == check_if_empty(c)
    IN  IF c1.err # OK THEN c1 ELSE [c1 EXCEPT !.reading_list = << >>]

\* check_if_empty's ValueError is caught and logged; the list is cleared either way.
clear_reading_list(c) == [c EXCEPT !.reading_list = << >>]

\* [self._get_book_from_cache_or_db(bid) for bid in self.reading_list]
RECURSIVE CollectBooks(_, _, _)
CollectBooks(c, i, books) ==
    IF c.err # OK THEN c
    ELSE IF i > Len(c.reading_list) THEN [c EXCEPT !.ret = books]
    ELSE LET d == get_book_from_cache_or_db(c, c.reading_list[i])
         IN  IF d.err # OK THEN d ELSE CollectBooks(d, i + 1, Append(books, d.ret))

get_all_books(c) == CollectBooks(check_if_empty(c), 1, << >>)

get_book_by_book_id(c, book_id) ==
    LET c1 == validate_book_id(check_if_empty(c), book_id, TRUE)
    IN  IF c1.err # OK THEN c1 ELSE get_book_from_cache_or_db(c1, c1.ret)

\* Mutant: the selection number is used as the 0-based index.
get_book_by_selection_number_as_index(c, selection_number) ==
    LET c1 == validate_selection_number(check_if_empty(c), selection_number)
    IN  IF c1.err # OK THEN c1
        ELSE IF c1.ret >= Len(c1.reading_list) THEN Raise(c1, "IndexError")
        ELSE get_book_from_cache_or_db(c1, c1.reading_list[c1.ret + 1])

get_book_by_selection_number(c, selection_number) ==
    LET c1 == validate_selection_number(check_if_empty(c), selection_number)
    IN  IF c1.err # OK THEN c1
        ELSE IF c1.ret - 1 >= Len(c1.reading_list) THEN Raise(c1, "IndexError")
        ELSE get_book_from_cache_or_db(c1, c1.reading_list[c1.ret])

get_current_book(c) ==
    LET c1 == check_if_empty(c)
    IN  get_book_by_selection_number(c1, RawInt(c1.current_selection_number))

\* Mutant: the selection is set from the parsed number before it is validated.
go_to_selection_number_set_first(c, selection_number) ==
    LET c1 == check_if_empty(c)
        p == ParseInt(selection_number)
        c2 == IF c1.err = OK /\ p.ok
              THEN [c1 EXCEPT !.current_selection_number = p.v] ELSE c1
    IN  validate_selection_number(c2, selection_number)

go_to_selection_number(c, selection_number) ==
    LET c1 == validate_selection_number(check_if_empty(c), selection_number)
    IN  IF c1.err # OK THEN c1 ELSE [c1 EXCEPT !.current_selection_number = c1.ret]

\* The bound handed to get_random.
RandomUpper(c) == get_reading_list_length(check_if_empty(c))

go_to_random_selection(c, rnd) ==
    LET c1 == get_random(RandomUpper(c), rnd)
    IN  IF c1.err # OK THEN c1 ELSE [c1 EXCEPT !.current_selection_number = c1.ret]

\* Mutant: the book is put back at index 1, the second place.
move_book_to_beginning_at_index_one(c, book_id) ==
    LET c1 == validate_book_id(check_if_empty(c), book_id, TRUE)
    IN  IF c1.err # OK THEN c1
        ELSE [c1 EXCEPT !.reading_list = ListInsert(ListRemove(@, c1.ret), 1, c1.ret)]

move_book_to_beginning(c, book_id) ==
    LET c1 == validate_book_id(check_if_empty(c), book_id, TRUE)
    IN  IF c1.err # OK THEN c1
        ELSE [c1 EXCEPT !.reading_list = ListInsert(ListRemove(@, c1.ret), 0, c1.ret)]

\* Mutant: the book is appended without being taken out first.
move_book_to_end_without_remove(c, book_id) ==
    LET c1 == validate_book_id(check_if_empty(c), book_id, TRUE)
    IN  IF c1.err # OK THEN c1
        ELSE [c1 EXCEPT !.reading_list = Append(@, c1.ret)]

move_book_to_end(c, book_id) ==
    LET c1 == validate_book_id(check_if_empty(c), book_id, TRUE)
    IN  IF c1.err # OK THEN c1
        ELSE [c1 EXCEPT !.reading_list = Append(ListRemove(@, c1.ret), c1.ret)]

\* Mutant: the book is taken out of the list before the position is validated.
move_book_removing_before_validation(c, book_id, selection_number) ==
    LET c1 == validate_book_id(check_if_empty(c), book_id, TRUE)
        c2 == IF c1.err # OK THEN c1 ELSE [c1 EXCEPT !.reading_list = ListRemove(@, c1.ret)]
        c3 == validate_selection_number(c2, selection_number)
    IN  IF c3.err # OK THEN c3
        ELSE [c3 EXCEPT !.reading_list = ListInsert(@, c3.ret - 1, c1.ret)]

\* Mutant: the selection number is used as the 0-based index.
move_book_to_selection_number_as_index(c, book_id, selection_number) ==
    LET c1 == validate_book_id(check_if_empty(c), book_id, TRUE)
        c2 == validate_selection_number(c1, selection_number)
    IN  IF c2.err # OK THEN c2
        ELSE [c2 EXCEPT !.reading_list = ListInsert(ListRemove(@, c1.ret), c2.ret, c1.ret)]

move_book_to_selection_number(c, book_id, selection_number) ==
    LET c1 == validate_book_id(check_if_empty(c), book_id, TRUE)
        c2 == validate_selection_number(c1, selection_number)
    IN  IF c2.err # OK THEN c2
        ELSE [c2 EXCEPT !.reading_list = ListInsert(ListRemove(@, c1.ret), c2.ret - 1, c1.ret)]

\* Mutant: the two positions are assigned one after the other, not as a pair.
swap_books_assigned_in_turn(c, book1_id, book2_id) ==
    LET c1 == validate_book_id(check_if_empty(c), book1_id, TRUE)
        c2 == validate_book_id(c1, book2_id, TRUE)
    IN  IF c2.err # OK THEN c2
        ELSE IF c1.ret = c2.ret THEN Raise(c2, "SelfSwap")
        ELSE LET idx1 == ListIndex(c2.reading_list, c1.ret) + 1
                 idx2 == ListIndex(c2.reading_list, c2.ret) + 1
                 l1 == [c2.reading_list EXCEPT ![idx1] = c2.reading_list[idx2]]
             IN  [c2 EXCEPT !.reading_list = [l1 EXCEPT ![idx2] = l1[idx1]]]

\* Mutant: two equal ids are not refused.
swap_books_without_self_check(c, book1_id, book2_id) ==
    LET c1 == validate_book_id(check_if_empty(c), book1_id, TRUE)
        c2 == validate_book_id(c1, book2_id, TRUE)
    IN  IF c2.err # OK THEN c2
        ELSE LET idx1 == ListIndex(c2.reading_list, c1.ret) + 1
                 idx2 == ListIndex(c2.reading_list, c2.ret) + 1
             IN  [c2 EXCEPT !.reading_list =
                     [@ EXCEPT ![idx1] = c2.reading_list[idx2], ![idx2] = c2.reading_list[idx1]]]

swap_books_in_reading_list(c, book1_id, book2_id) ==
    LET c1 == validate_book_id(check_if_empty(c), book1_id, TRUE)
        c2 == validate_book_id(c1, book2_id, TRUE)
    IN  IF c2.err # OK THEN c2
        ELSE IF c1.ret = c2.ret THEN Raise(c2, "SelfSwap")
        ELSE LET idx1 == ListIndex(c2.reading_list, c1.ret) + 1
                 idx2 == ListIndex(c2.reading_list, c2.ret) + 1
             IN  [c2 EXCEPT !.reading_list =
                     [@ EXCEPT ![idx1] = c2.reading_list[idx2], ![idx2] = c2.reading_list[idx1]]]

\* Mutant: a selection past the end is read as the last book.
read_current_book_clamping_selection(c, failAt) ==
    LET c1 == check_if_empty(c)
        sel == IF c1.current_selection_number > Len(c1.reading_list)
               THEN Len(c1.reading_list) ELSE c1.current_selection_number
        c2 == get_book_by_selection_number(c1, RawInt(sel))
        c3 == update_read_count(c2, c2.ret, failAt)
        c4 == get_reading_list_length(c3)
    IN  IF c4.err # OK THEN c4
        ELSE [c4 EXCEPT !.current_selection_number = (sel % c4.ret) + 1]

\* Mutant: the selection advances without wrapping round.
read_current_book_without_wrap(c, failAt) ==
    LET c1 == check_if_empty(c)
        c2 == get_book_by_selection_number(c1, RawInt(c1.current_selection_number))
        c3 == update_read_count(c2, c2.ret, failAt)
    IN  IF c3.err # OK THEN c3
        ELSE [c3 EXCEPT !.current_selection_number = @ + 1]

read_current_book(c, failAt) ==
    LET c1 == check_if_empty(c)
        c2 == get_book_by_selection_number(c1, RawInt(c1.current_selection_number))
        c3 == update_read_count(c2, c2.ret, failAt)
        c4 == get_reading_list_length(c3)
    IN  IF c4.err # OK THEN c4
        ELSE [c4 EXCEPT !.current_selection_number = (@ % c4.ret) + 1]

\* for _ in range(k): self.read_current_book()
RECURSIVE ReadTimes(_, _, _)
ReadTimes(c, k, failAt) ==
    IF c.err # OK \/ k <= 0 THEN c
    ELSE ReadTimes(read_current_book(c, failAt), k - 1, failAt)

read_entire_reading_list(c, failAt) ==
    LET c1 == check_if_empty(c)
    IN  IF c1.err # OK THEN c1
        ELSE LET c2 == [c1 EXCEPT !.current_selection_number = 1]
                 c3 == get_reading_list_length(c2)
             IN  IF c3.err # OK THEN c3 ELSE ReadTimes(c3, c3.ret, failAt)

\* Mutant: the loop body runs once before the count is looked at.
read_rest_at_least_once(c, failAt) ==
    LET c1 == get_reading_list_length(check_if_empty(c))
        k == c1.ret - c1.current_selection_number + 1
    IN  IF c1.err # OK THEN c1
        ELSE ReadTimes(c1, IF k < 1 THEN 1 ELSE k, failAt)

\* Mutant: the book under the selection is not counted in.
read_rest_one_short(c, failAt) ==
    LET c1 == get_reading_list_length(check_if_empty(c))
    IN  IF c1.err # OK THEN c1
        ELSE ReadTimes(c1, c1.ret - c1.current_selection_number, failAt)

read_rest_of_reading_list(c, failAt) ==
    LET c1 == get_reading_list_length(check_if_empty(c))
    IN  IF c1.err # OK THEN c1
        ELSE ReadTimes(c1, c1.ret - c1.current_selection_number + 1, failAt)

\* Mutant: the selection in use is validated before it is reset.
rewind_validating_selection(c) ==
    LET c1 == validate_selection_number(check_if_empty(c), RawInt(c.current_selection_number))
    IN  IF c1.err # OK THEN c1 ELSE [c1 EXCEPT !.current_selection_number = 1]

\* Mutant: the list is not asked whether it is empty.
rewind_without_empty_check(c) == [c EXCEPT !.current_selection_number = 1]

rewind_reading_list(c) ==
    LET c1 == check_if_empty(c)
    IN  IF c1.err # OK THEN c1 ELSE [c1 EXCEPT !.current_selection_number = 1]

(***************************************************************************)
(* The calls, one step each.                                               *)
(***************************************************************************)

\* What callers pass as a book id and as a selection number.
RawIds == {RawInt(i) : i \in (-1)..NumBooks} \cup {RawJunk}
RawPositions == {RawInt(i) : i \in 0..(NumBooks + 1)} \cup {RawJunk}
\* Which call of update_read_count fails within one method: 0 is none.
FailPoints == 0..NumBooks
\* What get_random answers: 0 is a failure.
RandomAnswers == 0..(NumBooks + 1)

\* What a call leaves in self when it returns or raises.
Commit(c) ==
    /\ reading_list' = c.reading_list
    /\ current_selection_number' = c.current_selection_number
    /\ book_cache' = c.book_cache
    /\ ttl' = c.ttl

Add ==
    \E book_id \in RawIds :
        /\ Commit(add_book_to_reading_list(Start, book_id))
        /\ UNCHANGED <<impl, now, db, ringVars, callerVars>>

RemoveById ==
    \E book_id \in RawIds :
        /\ Commit(remove_book_by_book_id(Start, book_id))
        /\ UNCHANGED <<impl, now, db, ringVars, callerVars>>

RemoveByPosition ==
    \E n \in RawPositions :
        /\ Commit(remove_book_by_selection_number(Start, n))
        /\ UNCHANGED <<impl, now, db, ringVars, callerVars>>

Clear ==
    /\ Commit(clear_reading_list(Start))
    /\ UNCHANGED <<impl, now, db, ringVars, callerVars>>

GetAll ==
    /\ Commit(get_all_books(Start))
    /\ UNCHANGED <<impl, now, db, ringVars, callerVars>>

GetById ==
    \E book_id \in RawIds :
        /\ Commit(get_book_by_book_id(Start, book_id))
        /\ UNCHANGED <<impl, now, db, ringVars, callerVars>>

GetByPosition ==
    \E n \in RawPositions :
        /\ Commit(get_book_by_selection_number(Start, n))
        /\ UNCHANGED <<impl, now, db, ringVars, callerVars>>

GetCurrent ==
    /\ Commit(get_current_book(Start))
    /\ UNCHANGED <<impl, now, db, ringVars, callerVars>>

Length ==
    /\ Commit(get_reading_list_length(Start))
    /\ UNCHANGED <<impl, now, db, ringVars, callerVars>>

TotalPages ==
    /\ Commit(get_reading_list_page_count(Start))
    /\ UNCHANGED <<impl, now, db, ringVars, callerVars>>

Goto ==
    \E n \in RawPositions :
        /\ Commit(go_to_selection_number(Start, n))
        /\ UNCHANGED <<impl, now, db, ringVars, callerVars>>

\* The provider fails, or answers within [1, upper].
RandomInContract(c, rnd) ==
    rnd = 0 \/ (RandomUpper(c).err = OK /\ rnd <= RandomUpper(c).ret)

GotoRandom ==
    \E rnd \in RandomAnswers :
        /\ RandomInContract(Start, rnd)
        /\ Commit(go_to_random_selection(Start, rnd))
        /\ UNCHANGED <<impl, now, db, ringVars, callerVars>>

MoveToBeginning ==
    \E book_id \in RawIds :
        /\ Commit(move_book_to_beginning(Start, book_id))
        /\ UNCHANGED <<impl, now, db, ringVars, callerVars>>

MoveToEnd ==
    \E book_id \in RawIds :
        /\ Commit(move_book_to_end(Start, book_id))
        /\ UNCHANGED <<impl, now, db, ringVars, callerVars>>

MoveToPosition ==
    \E book_id \in RawIds, n \in RawPositions :
        /\ Commit(move_book_to_selection_number(Start, book_id, n))
        /\ UNCHANGED <<impl, now, db, ringVars, callerVars>>

Swap ==
    \E book1_id \in RawIds, book2_id \in RawIds :
        /\ Commit(swap_books_in_reading_list(Start, book1_id, book2_id))
        /\ UNCHANGED <<impl, now, db, ringVars, callerVars>>

ReadCurrent ==
    \E failAt \in FailPoints :
        /\ Commit(read_current_book(Start, failAt))
        /\ UNCHANGED <<impl, now, db, ringVars, callerVars>>

ReadAll ==
    \E failAt \in FailPoints :
        /\ Commit(read_entire_reading_list(Start, failAt))
        /\ UNCHANGED <<impl, now, db, ringVars, callerVars>>

ReadRest ==
    \E failAt \in FailPoints :
        /\ Commit(read_rest_of_reading_list(Start, failAt))
        /\ UNCHANGED <<impl, now, db, ringVars, callerVars>>

Rewind ==
    /\ Commit(rewind_reading_list(Start))
    /\ UNCHANGED <<impl, now, db, ringVars, callerVars>>

\* time.time() moves on between calls.
Tick ==
    /\ now < MaxTime
    /\ now' = now + 1
    /\ UNCHANGED <<impl, reading_list, current_selection_number, book_cache, ttl, db,
                   ringVars, callerVars>>

\* A row of the books table is deleted by another part of the service.
DeleteBook ==
    \E book_id \in db :
        /\ db' = db \ {book_id}
        /\ UNCHANGED <<impl, reading_list, current_selection_number, book_cache, ttl, now,
                       ringVars, callerVars>>

(***************************************************************************)
(* The boxing ring: src/HW/HW2 Codebase/boxing/boxing/models/ring_model.py  *)
(* over the boxers table of boxers_model.py.  A method of RingModel is an   *)
(* operator on a call context as above, with the fields of its own class:   *)
(* ring, the rows of the boxers table, the updates of the table that went   *)
(* through (stats), the number the randomness provider answered.           *)
(***************************************************************************)

\* Every boxer may take part in fights until it has fought MaxFights times.
MaxFights == 2

\* boxers_model.Boxer, with the fields the ring reads.
Boxer(id, name, weight, reach, age) ==
    [kind |-> "Boxer", id |-> id, name |-> name, weight |-> weight,
     reach |-> reach, age |-> age]

\* The boxers of the service: two of the fixtures of test_ring_model.py and a
\* younger one whose skill is close to the first one's.
SampleBoxers ==
    << Boxer(1, "Mike Tyson", 220, 75, 30),
       Boxer(2, "Muhammad Ali", 190, 80, 35),
       Boxer(3, "Max Baer", 275, 88, 24) >>

BoxerIds == DOMAIN SampleBoxers

\* What a caller may hand to enter_ring: a Boxer, an object of another class
\* that has a name, an object that has none.
RingInputs ==
    {SampleBoxers[i] : i \in BoxerIds}
        \cup {[kind |-> "Named", name |-> "Nobody"], [kind |-> "Unnamed"]}

\* A row of the boxers table as update_boxer_stats sees it.
NewRow == [fights |-> 0, wins |-> 0]

\* get_random() of boxing.utils.api_utils answers a decimal fraction with two
\* places, here in hundredths; -1 is a failure of the provider.
RandomFractions == {-1, 0, 49, 50, 57, 58, 99}

RingStart ==
    [ring |-> ring,
     boxers |-> boxers,
     stats |-> << >>,
     random_number |-> 0,
     err |-> OK,
     ret |-> ""]

get_random_fraction(c, rnd) ==
    IF c.err # OK THEN c
    ELSE IF rnd < 0 THEN [c EXCEPT !.err = "ProviderError"]
         ELSE [c EXCEPT !.random_number = rnd]

\* boxers_model.update_boxer_stats
update_boxer_stats(c, boxer_id, result) ==
    IF c.err # OK THEN c
    ELSE IF result \notin {"win", "loss"} THEN Raise(c, "InvalidResult")
    ELSE IF boxer_id \notin DOMAIN c.boxers THEN Raise(c, "BoxerNotFound")
    ELSE LET row == c.boxers[boxer_id]
             updated == IF result = "win"
                        THEN [fights |-> row.fights + 1, wins |-> row.wins + 1]
                        ELSE [fights |-> row.fights + 1, wins |-> row.wins]
         IN  [c EXCEPT !.boxers[boxer_id] = updated,
                       !.stats = Append(@, <<boxer_id, result>>)]

clear_ring(c) ==
    IF c.err # OK THEN c
    ELSE IF Len(c.ring) = 0 THEN c
    ELSE [c EXCEPT !.ring = << >>]

\* Mutant: the ring is full only above two boxers.
enter_ring_full_above_two(c, boxer) ==
    IF c.err # OK THEN c
    ELSE IF "name" \notin DOMAIN boxer THEN Raise(c, "AttributeError")
    ELSE IF boxer.kind # "Boxer" THEN Raise(c, "TypeError")
    ELSE IF Len(c.ring) > 2 THEN Raise(c, "RingFull")
    ELSE [c EXCEPT !.ring = Append(@, boxer)]

\* The log line reads boxer.name before the type is looked at.
enter_ring(c, boxer) ==
    IF c.err # OK THEN c
    ELSE IF "name" \notin DOMAIN boxer THEN Raise(c, "AttributeError")
    ELSE IF boxer.kind # "Boxer" THEN Raise(c, "TypeError")
    ELSE IF Len(c.ring) >= 2 THEN Raise(c, "RingFull")
    ELSE [c EXCEPT !.ring = Append(@, boxer)]

get_boxers(c) == c.ring

age_modifier(boxer) == IF boxer.age < 25 THEN -1 ELSE IF boxer.age > 35 THEN -2 ELSE 0

\* get_fighting_skill in tenths: reach / 10 is the only part that is no integer.
get_fighting_skill(boxer) ==
    10 * (boxer.weight * Len(boxer.name)) + boxer.reach + 10 * age_modifier(boxer)

\* 1 / (1 + math.e ** (-delta)) in hundredths, rounded up, for delta from one
\* tenth to 4.5; above, it is 100 (from delta = 37 the float is 1.0 itself).
LogisticTable ==
    << 53, 55, 58, 60, 63, 65, 67, 69, 72, 74, 76, 77, 79, 81, 82,
       84, 85, 86, 87, 89, 90, 91, 91, 92, 93, 94, 94, 95, 95, 96,
       96, 97, 97, 97, 98, 98, 98, 98, 99, 99, 99, 99, 99, 99, 99 >>

\* random_number < normalized_delta, random_number in hundredths and delta in
\* tenths: a fraction of two places is below the logistic value exactly when
\* its hundredths are below the value rounded up.
BelowNormalizedDelta(random_number, delta) ==
    IF delta = 0 THEN 2 * random_number < 100
    ELSE IF delta \in DOMAIN LogisticTable THEN random_number < LogisticTable[delta]
    ELSE random_number < 100

\* Mutant: the fight does not empty the ring.
fight_leaving_the_ring(c, rnd) ==
    IF c.err # OK THEN c
    ELSE IF Len(c.ring) < 2 THEN Raise(c, "NotEnoughBoxers")
    ELSE LET boxer_1 == get_boxers(c)[1]
             boxer_2 == get_boxers(c)[2]
             skill_1 == get_fighting_skill(boxer_1)
             skill_2 == get_fighting_skill(boxer_2)
             delta == IF skill_1 >= skill_2 THEN skill_1 - skill_2 ELSE skill_2 - skill_1
             c1 == get_random_fraction(c, rnd)
             first == BelowNormalizedDelta(c1.random_number, delta)
             winner == IF first THEN boxer_1 ELSE boxer_2
             loser == IF first THEN boxer_2 ELSE boxer_1
             c2 == update_boxer_stats(c1, winner.id, "win")
             c3 == update_boxer_stats(c2, loser.id, "loss")
         IN  IF c3.err # OK THEN c3 ELSE [c3 EXCEPT !.ret = winner.name]

fight(c, rnd) ==
    IF c.err # OK THEN c
    ELSE IF Len(c.ring) < 2 THEN Raise(c, "NotEnoughBoxers")
    ELSE LET boxer_1 == get_boxers(c)[1]
             boxer_2 == get_boxers(c)[2]
             skill_1 == get_fighting_skill(boxer_1)
             skill_2 == get_fighting_skill(boxer_2)
             delta == IF skill_1 >= skill_2 THEN skill_1 - skill_2 ELSE skill_2 - skill_1
             c1 == get_random_fraction(c, rnd)
             first == BelowNormalizedDelta(c1.random_number, delta)
             winner == IF first THEN boxer_1 ELSE boxer_2
             loser == IF first THEN boxer_2 ELSE boxer_1
             c2 == update_boxer_stats(c1, winner.id, "win")
             c3 == update_boxer_stats(c2, loser.id, "loss")
             c4 == clear_ring(c3)
         IN  IF c4.err # OK THEN c4 ELSE [c4 EXCEPT !.ret = winner.name]

CommitRing(c) ==
    /\ ring' = c.ring
    /\ boxers' = c.boxers

engineVars == <<impl, reading_list, current_selection_number, book_cache, ttl, now, db>>

EnterRing ==
    \E boxer \in RingInputs :
        /\ CommitRing(enter_ring(RingStart, boxer))
        /\ UNCHANGED <<engineVars, callerVars>>

\* A boxer in the ring that has fought MaxFights times is not sent to fight again.
Fight ==
    \E rnd \in RandomFractions :
        /\ \A i \in 1..Len(ring) :
               ring[i].id \in DOMAIN boxers => boxers[ring[i].id].fights < MaxFights
        /\ CommitRing(fight(RingStart, rnd))
        /\ UNCHANGED <<engineVars, callerVars>>

ClearRing ==
    /\ CommitRing(clear_ring(RingStart))
    /\ UNCHANGED <<engineVars, callerVars>>

GetBoxers ==
    /\ ring' = get_boxers(RingStart)
    /\ UNCHANGED <<boxers, engineVars, callerVars>>

\* boxers_model.delete_boxer: the row goes, the Boxer objects in the ring stay.
DeleteBoxer ==
    \E boxer_id \in DOMAIN boxers :
        /\ boxers' = [id \in DOMAIN boxers \ {boxer_id} |-> boxers[id]]
        /\ UNCHANGED <<ring, engineVars, callerVars>>

InitRing ==
    /\ ring = << >>
    /\ boxers = [id \in BoxerIds |-> NewRow]

NextRing == EnterRing \/ Fight \/ ClearRing \/ GetBoxers \/ DeleteBoxer

(***************************************************************************)
(* Two callers of add_book_to_reading_list on one ReadingListModel, without *)
(* a lock: the statements of the method are the steps, and the steps of the *)
(* two callers interleave freely.  pc[t] is the statement caller t executes *)
(* next, frame[t] its local variables.                                      *)
(***************************************************************************)

Callers == {"A", "B"}

NoBook == [id |-> 0, length |-> 0]

NewFrame == [arg |-> RawJunk, book_id |-> 0, book |-> NoBook, err |-> OK]

\* book_id = self.validate_book_id(book_id, check_in_reading_list=False)
add_validate(c, book_id) == validate_book_id(c, book_id, FALSE)

\* if book_id in self.reading_list: raise ValueError
add_check(c, book_id) ==
    IF c.err # OK THEN c
    ELSE IF InList(c.reading_list, book_id) THEN Raise(c, "DuplicateId") ELSE c

\* book = self._get_book_from_cache_or_db(book_id)
add_lookup(c, book_id) == get_book_from_cache_or_db(c, book_id)

\* Mutant: the list is looked at again before the append.
add_append_checking_again(c, book) ==
    IF c.err # OK THEN c
    ELSE IF InList(c.reading_list, book.id) THEN Raise(c, "DuplicateId")
    ELSE [c EXCEPT !.reading_list = Append(@, book.id)]

\* self.reading_list.append(book.id)
add_append(c, book) ==
    IF c.err # OK THEN c ELSE [c EXCEPT !.reading_list = Append(@, book.id)]

\* Caller t goes on to the statement next, or leaves the method with the
\* exception of c.
Proceed(t, c, next, f) ==
    /\ pc' = [pc EXCEPT ![t] = IF c.err = OK THEN next ELSE "done"]
    /\ frame' = [frame EXCEPT ![t] = [f EXCEPT !.err = c.err]]

AddValidate ==
    \E t \in Callers, book_id \in RawIds :
        /\ pc[t] = "validate"
        /\ LET c == add_validate(Start, book_id)
           IN  /\ Commit(c)
               /\ Proceed(t, c, "check",
                          [frame[t] EXCEPT !.arg = book_id,
                                           !.book_id = IF c.err = OK THEN c.ret ELSE 0])
        /\ UNCHANGED <<impl, now, db, ringVars>>

AddCheck ==
    \E t \in Callers :
        /\ pc[t] = "check"
        /\ LET c == add_check(Start, frame[t].book_id)
           IN  /\ Commit(c)
               /\ Proceed(t, c, "lookup", frame[t])
        /\ UNCHANGED <<impl, now, db, ringVars>>

AddLookup ==
    \E t \in Callers :
        /\ pc[t] = "lookup"
        /\ LET c == add_lookup(Start, frame[t].book_id)
           IN  /\ Commit(c)
               /\ Proceed(t, c, "append",
                          [frame[t] EXCEPT !.book = IF c.err = OK THEN c.ret ELSE NoBook])
        /\ UNCHANGED <<impl, now, db, ringVars>>

AddAppend ==
    \E t \in Callers :
        /\ pc[t] = "append"
        /\ LET c == add_append(Start, frame[t].book)
           IN  /\ Commit(c)
               /\ Proceed(t, c, "done", frame[t])
        /\ UNCHANGED <<impl, now, db, ringVars>>

InitCallers ==
    /\ pc = [t \in Callers |-> "validate"]
    /\ frame = [t \in Callers |-> NewFrame]

NextCallers == AddValidate \/ AddCheck \/ AddLookup \/ AddAppend \/ Tick \/ DeleteBook

InitEngine ==
    /\ reading_list = << >>
    /\ current_selection_number = 1
    /\ book_cache = << >>
    /\ ttl = << >>
    /\ now = 0
    /\ db = BookIds

Init == impl = "readinglist" /\ InitEngine /\ InitRing /\ InitCallers

InitRL == impl = "reading_list" /\ InitEngine /\ InitRing /\ InitCallers

Next ==
    \/ Add \/ RemoveById \/ RemoveByPosition \/ Clear
    \/ GetAll \/ GetById \/ GetByPosition \/ GetCurrent \/ Length \/ TotalPages
    \/ Goto \/ GotoRandom \/ MoveToBeginning \/ MoveToEnd \/ MoveToPosition \/ Swap
    \/ ReadCurrent \/ ReadAll \/ ReadRest \/ Rewind
    \/ Tick \/ DeleteBook

\* The engine of readinglist_model.py.
Spec == Init /\ [][Next]_vars

\* The engine of reading_list_model.py.
SpecRL == InitRL /\ [][Next]_vars

\* The ring of ring_model.py.
SpecRing == Init /\ [][NextRing]_vars

\* The engine of readinglist_model.py with two callers of add at once.
SpecCallers == Init /\ [][NextCallers]_vars

(***************************************************************************)
(* Properties.  A property of a call is stated for every reachable state   *)
(* and every argument: the call is run from the state (Start) and what it  *)
(* leaves (its context) is compared with the state it started in.          *)
(***************************************************************************)

Ids(c) == {c.reading_list[i] : i \in 1..Len(c.reading_list)}

\* The lookup of book_id would succeed in the context c.
Resolves(c, book_id) == CacheFresh(c, book_id) \/ book_id \in c.db

\* P(op, c) for the outcome c of every public call from the current state.
EveryCall(P(_, _)) ==
    /\ \A b \in RawIds : P("add", add_book_to_reading_list(Start, b))
    /\ \A b \in RawIds : P("removeById", remove_book_by_book_id(Start, b))
    /\ \A n \in RawPositions : P("removeByPosition", remove_book_by_selection_number(Start, n))
    /\ P("clear", clear_reading_list(Start))
    /\ P("getAll", get_all_books(Start))
    /\ \A b \in RawIds : P("getById", get_book_by_book_id(Start, b))
    /\ \A n \in RawPositions : P("getByPosition", get_book_by_selection_number(Start, n))
    /\ P("getCurrent", get_current_book(Start))
    /\ P("length", get_reading_list_length(Start))
    /\ P("totalPages", get_reading_list_page_count(Start))
    /\ \A n \in RawPositions : P("goto", go_to_selection_number(Start, n))
    /\ \A rnd \in RandomAnswers :
          RandomInContract(Start, rnd) => P("gotoRandom", go_to_random_selection(Start, rnd))
    /\ \A b \in RawIds : P("moveToBeginning", move_book_to_beginning(Start, b))
    /\ \A b \in RawIds : P("moveToEnd", move_book_to_end(Start, b))
    /\ \A b \in RawIds, n \in RawPositions :
          P("moveToPosition", move_book_to_selection_number(Start, b, n))
    /\ \A b1 \in RawIds, b2 \in RawIds : P("swap", swap_books_in_reading_list(Start, b1, b2))
    /\ \A f \in FailPoints : P("readCurrent", read_current_book(Start, f))
    /\ \A f \in FailPoints : P("readAll", read_entire_reading_list(Start, f))
    /\ \A f \in FailPoints : P("readRest", read_rest_of_reading_list(Start, f))
    /\ P("rewind", rewind_reading_list(Start))

\* C1: in every reachable state no id appears more than once in the
\* reading list.
C1_NoDuplicateIds ==
    \A i \in 1..Len(reading_list), j \in 1..Len(reading_list) :
        i # j => reading_list[i] # reading_list[j]

\* Every book id is in the list, the second added before the first.
C1_Witness == Len(reading_list) = NumBooks /\ reading_list[1] > reading_list[2]

\* C2 as stated: in every reachable state in which the list is not empty,
\* 1 <= current_selection_number <= the number of ids in the list.
C2_CursorWithinList ==
    Len(reading_list) > 0 =>
        (1 <= current_selection_number /\ current_selection_number <= Len(reading_list))

\* The selection number is at least 1 and points into the list (or is 1 on an
\* empty list).
CursorOk(c) ==
    /\ 1 <= c.current_selection_number
    /\ c.current_selection_number <= (IF Len(c.reading_list) = 0 THEN 1 ELSE Len(c.reading_list))

ShrinkingOps == {"removeById", "removeByPosition", "clear"}

C2_Kept(op, c) ==
    /\ 1 <= c.current_selection_number
    /\ (op \notin ShrinkingOps /\ CursorOk(Start)) => CursorOk(c)

\* C2 as amended: in every reachable state 1 <= current_selection_number, and
\* every call other than removeById, removeByPosition and clear that starts
\* with the selection number within the list ends with it within the list
\* (the provider answering within [1, upper]); the three calls that shrink the
\* list leave the selection number as it is, so it can exceed the length.
C2_CursorWithinListUnlessShrunk ==
    1 <= current_selection_number /\ EveryCall(C2_Kept)

\* The selection has been moved to the last of two books.
C2_Witness == Len(reading_list) = 2 /\ current_selection_number = 2

C3_Unchanged(c) ==
    /\ c.reading_list = reading_list
    /\ c.current_selection_number = current_selection_number

C3_AllOrNothing(op, c) == c.err # OK => C3_Unchanged(c)

\* C3 as stated: whenever a public call ends in a failure, the list and the
\* selection number are exactly as they were before the call.
C3_FailureChangesNothing == EveryCall(C3_AllOrNothing)

C3_AllOrNothingButReads(op, c) ==
    c.err # OK =>
        /\ c.reading_list = reading_list
        /\ op \notin {"readAll", "readRest"} => C3_Unchanged(c)
        /\ op = "readAll" =>
              IF c.err = "EmptyCollection" THEN C3_Unchanged(c)
              ELSE c.current_selection_number = Len(c.reads) + 1
        /\ op = "readRest" =>
              c.current_selection_number = current_selection_number + Len(c.reads)

\* C3 as amended: whenever a public call ends in a failure the list is as it
\* was before the call, and so is the selection number unless the call is
\* readAll or readRest on a list that is not empty: those fail with the
\* selection number on the book whose read failed (readAll having first reset
\* it to 1).
C3_FailureChangesNothingButReadsMoveCursor == EveryCall(C3_AllOrNothingButReads)

\* readAll is about to fail on a later book, after a first book was read.
C3_Witness ==
    \E f \in FailPoints :
        LET c == read_entire_reading_list(Start, f)
        IN  c.err # OK /\ Len(c.reads) >= 1 /\ current_selection_number # Len(c.reads) + 1

\* C4: every successful add(id) makes the list one longer, puts id last and
\* leaves every id that was in the list at its position.
C4_AddAppends ==
    \A b \in RawIds :
        LET c == add_book_to_reading_list(Start, b)
        IN  c.err = OK => c.reading_list = Append(reading_list, ParseInt(b).v)

\* A book is in the list and another can be added.
C4_Witness ==
    /\ Len(reading_list) >= 1
    /\ \E b \in RawIds : add_book_to_reading_list(Start, b).err = OK

\* C5 as stated: add(id) of an id already in the list fails with DuplicateId
\* and leaves the list unchanged, whatever the cache and the store hold.
C5_AddPresentIsDuplicate ==
    \A b \in RawIds :
        LET c == add_book_to_reading_list(Start, b)
        IN  (ParseInt(b).ok /\ InList(reading_list, ParseInt(b).v)) =>
                (c.err = "DuplicateId" /\ c.reading_list = reading_list)

\* C5 as amended: add(id) of an id already in the list always fails and leaves
\* the list unchanged; it fails with DuplicateId when the id has a fresh cache
\* entry or the store holds it, and with IdNotInStore when it has neither (the
\* lookup comes before the duplicate check).
C5_AddPresentFails ==
    \A b \in RawIds :
        LET c == add_book_to_reading_list(Start, b)
        IN  (ParseInt(b).ok /\ InList(reading_list, ParseInt(b).v)) =>
                /\ c.reading_list = reading_list
                /\ c.err = IF Resolves(Start, ParseInt(b).v) THEN "DuplicateId"
                                                               ELSE "IdNotInStore"

\* An id is in the list, its cache entry has expired and its row is deleted;
\* another id in the list still resolves.
C5_Witness ==
    /\ \E i \in 1..Len(reading_list) : ~Resolves(Start, reading_list[i])
    /\ \E i \in 1..Len(reading_list) : Resolves(Start, reading_list[i])

\* The selection number points into a list that is not empty.
CursorInList ==
    /\ Len(reading_list) > 0
    /\ 1 <= current_selection_number
    /\ current_selection_number <= Len(reading_list)

\* C6: a readCurrent() that succeeds on a list that is not empty, with the
\* selection number c in [1, length], runs update_read_count once, on the
\* book at position c, and leaves the selection number at c + 1 if c < length
\* and at 1 if c = length.
C6_ReadCurrentReadsAndAdvances ==
    \A f \in FailPoints :
        LET c == read_current_book(Start, f)
        IN  (CursorInList /\ c.err = OK) =>
                /\ c.reads = <<reading_list[current_selection_number]>>
                /\ c.current_selection_number =
                      IF current_selection_number < Len(reading_list)
                      THEN current_selection_number + 1 ELSE 1
                /\ c.reading_list = reading_list

\* readCurrent succeeds on the last of two books.
C6_Witness ==
    /\ Len(reading_list) = 2 /\ current_selection_number = 2
    /\ read_current_book(Start, 0).err = OK

\* C7: readAll() on a list that is not empty, from any selection number, with
\* every book resolving and no update_read_count failing, makes length()
\* reads, one of every id in list order, and ends with the selection number 1.
C7_ReadAllReadsEveryBookOnce ==
    LET c == read_entire_reading_list(Start, 0)
    IN  (Len(reading_list) > 0 /\ \A id \in Ids(Start) : Resolves(Start, id)) =>
            /\ c.err = OK
            /\ c.reads = reading_list
            /\ c.current_selection_number = 1

\* readAll is called with the selection on the second of two books.
C7_Witness ==
    /\ Len(reading_list) = 2 /\ current_selection_number = 2
    /\ \A id \in Ids(Start) : Resolves(Start, id)

\* The ids at positions from..Len(s) of s.
Rest(s, from) == [i \in 1..(Len(s) - from + 1) |-> s[from + i - 1]]

\* C8 as stated: a readRest() that succeeds on a list that is not empty makes
\* length() - cursor + 1 reads, of the positions cursor..length in order, and
\* ends with the selection number 1, in every reachable state.
C8_ReadRestEndsAtOne ==
    LET c == read_rest_of_reading_list(Start, 0)
    IN  (Len(reading_list) > 0 /\ c.err = OK) =>
            /\ Len(c.reads) = Len(reading_list) - current_selection_number + 1
            /\ c.reads = Rest(reading_list, current_selection_number)
            /\ c.current_selection_number = 1

\* C8 as amended: the same, from every reachable state in which the list is
\* not empty and 1 <= cursor <= length.
C8_ReadRestFromCursorInList ==
    LET c == read_rest_of_reading_list(Start, 0)
    IN  (CursorInList /\ c.err = OK) =>
            /\ Len(c.reads) = Len(reading_list) - current_selection_number + 1
            /\ c.reads = Rest(reading_list, current_selection_number)
            /\ c.current_selection_number = 1

\* readRest succeeds from the first of two books.
C8_Witness ==
    /\ Len(reading_list) = 2 /\ current_selection_number = 1
    /\ read_rest_of_reading_list(Start, 0).err = OK

\* The context of a later call: the clock reads t, the books table holds rows.
Later(c, t, rows) == [c EXCEPT !.now = t, !.db = rows, !.reads = << >>, !.fetched = << >>]

\* Times of a later get: before, at and after the expiry of an entry made now.
LaterTimes == now..(now + ttl_seconds + 1)

\* C9 as stated: after a get(id) that succeeded at time t, a get(id) at
\* t' < t + ttl_seconds returns the cached snapshot without calling the store,
\* and the first get(id) at t' >= t + ttl_seconds calls the store once and
\* stores the expiry t' + ttl_seconds.
C9_FreshForTtlAfterAnyGet ==
    \A id \in BookIds, t \in LaterTimes :
        LET c1 == get_book_from_cache_or_db(Start, id)
            c2 == get_book_from_cache_or_db(Later(c1, t, db), id)
        IN  c1.err = OK =>
                IF t < now + ttl_seconds
                THEN c2.err = OK /\ c2.fetched = << >> /\ c2.ret = c1.ret
                ELSE c2.fetched = <<id>> /\ c2.err = OK /\ c2.ttl[id] = t + ttl_seconds

\* C9 as amended: after a get(id) that fetched the book from the store at
\* time t, a get(id) at t' < t + ttl_seconds returns the cached snapshot
\* without calling the store, whatever the store then holds, and the first
\* get(id) at t' >= t + ttl_seconds calls the store once; if the store still
\* holds the book it stores the expiry t' + ttl_seconds, and if not it fails.
\* A get served from the cache does not move the expiry.
C9_FreshForTtlAfterFetch ==
    \A id \in BookIds, t \in LaterTimes, rows \in SUBSET db :
        LET c1 == get_book_from_cache_or_db(Start, id)
            c2 == get_book_from_cache_or_db(Later(c1, t, rows), id)
        IN  /\ (c1.err = OK /\ c1.fetched = <<id>>) =>
                  IF t < now + ttl_seconds
                  THEN /\ c2.err = OK /\ c2.fetched = << >> /\ c2.ret = c1.ret
                       /\ c2.ttl = c1.ttl /\ c2.book_cache = c1.book_cache
                  ELSE /\ c2.fetched = <<id>>
                       /\ IF id \in rows
                          THEN c2.err = OK /\ c2.ttl[id] = t + ttl_seconds
                          ELSE c2.err = "NotFound"
            /\ (c1.err = OK /\ c1.fetched = << >>) => c1.ttl = ttl

\* An expired entry is fetched again, later than the first fetch.
C9_Witness ==
    \E id \in DOMAIN ttl :
        /\ now > 0 /\ ~CacheFresh(Start, id) /\ id \in db
        /\ get_book_from_cache_or_db(Start, id).fetched = <<id>>

\* Ids a get is called with: 0 is never in the books table.
GetIds == 0..NumBooks

\* C10: when get(id) finds no fresh entry and the store has no such book,
\* it fails with a not-found error and the cache is unchanged: no entry is
\* made for id, and an expired entry and its expiry stay as they are.
C10_NotFoundLeavesCache ==
    \A id \in GetIds :
        LET c == get_book_from_cache_or_db(Start, id)
        IN  (~CacheFresh(Start, id) /\ id \notin db) =>
                /\ c.err = "NotFound"
                /\ c.fetched = <<id>>
                /\ c.book_cache = book_cache
                /\ c.ttl = ttl

\* An entry has expired and its book is gone from the store.
C10_Witness ==
    \E id \in DOMAIN book_cache : ~CacheFresh(Start, id) /\ id \notin db

\* Integers a caller passes as a selection number, and as a book id.
Positions == 0..(NumBooks + 1)
IdArgs == 0..NumBooks

\* s with every x left out: the other ids in the order they had.
Without(s, x) == SelectSeq(s, LAMBDA y : y # x)

\* The 1-based position of x in s.
PositionOf(s, x) == ListIndex(s, x) + 1

C12_Removed(c, id) ==
    LET k == PositionOf(reading_list, id)
    IN  /\ c.err = OK
        /\ Len(c.reading_list) = Len(reading_list) - 1
        /\ \A i \in 1..(k - 1) : c.reading_list[i] = reading_list[i]
        /\ \A i \in (k + 1)..Len(reading_list) : c.reading_list[i - 1] = reading_list[i]

\* C12 as stated: removeById(id) of an id in the list (which the cache or
\* the store resolves) removes exactly that id; for an id not in the list it
\* fails with IdNotInCollection and the list is unchanged.
C12_RemoveByIdOrNotInCollection ==
    \A id \in IdArgs :
        LET c == remove_book_by_book_id(Start, RawInt(id))
        IN  IF InList(reading_list, id)
            THEN Resolves(Start, id) => C12_Removed(c, id)
            ELSE c.err = "IdNotInCollection" /\ c.reading_list = reading_list

\* C12 as amended: the same, but for an id not in the list the failure is
\* IdNotInCollection on a list that is not empty and EmptyCollection on an
\* empty one.
C12_RemoveByIdOrNotInCollectionOrEmpty ==
    \A id \in IdArgs :
        LET c == remove_book_by_book_id(Start, RawInt(id))
        IN  IF InList(reading_list, id)
            THEN Resolves(Start, id) => C12_Removed(c, id)
            ELSE /\ c.reading_list = reading_list
                 /\ c.err = IF Len(reading_list) = 0 THEN "EmptyCollection"
                                                     ELSE "IdNotInCollection"

\* The first of two books can be removed by id.
C12_Witness ==
    /\ Len(reading_list) = NumBooks
    /\ remove_book_by_book_id(Start, RawInt(reading_list[1])).err = OK

\* C13: removeById and removeByPosition never change the selection number:
\* after the call it is what it was before, also when the removal succeeded
\* and it now exceeds the length of the list.
C13_RemovalKeepsCursor ==
    /\ \A b \in RawIds :
          remove_book_by_book_id(Start, b).current_selection_number = current_selection_number
    /\ \A n \in RawPositions :
          remove_book_by_selection_number(Start, n).current_selection_number =
              current_selection_number

\* A removal succeeds with the selection on the last book, which leaves the
\* selection number past the end.
C13_Witness ==
    LET c == remove_book_by_selection_number(Start, RawInt(1))
    IN  /\ Len(reading_list) > 0
        /\ current_selection_number = Len(reading_list)
        /\ c.err = OK
        /\ c.current_selection_number > Len(c.reading_list)

\* Two different ids, both in the list.
BothPresent(a, b) == a # b /\ InList(reading_list, a) /\ InList(reading_list, b)

C15_SwapTwiceRestores ==
    \A a \in IdArgs, b \in IdArgs :
        LET c1 == swap_books_in_reading_list(Start, RawInt(a), RawInt(b))
            c2 == swap_books_in_reading_list(c1, RawInt(a), RawInt(b))
        IN  (BothPresent(a, b) /\ c1.err = OK) =>
                /\ c2.err = OK
                /\ c2.reading_list = reading_list
                /\ \A t \in LaterTimes, rows \in SUBSET db :
                      LET c3 == swap_books_in_reading_list(
                                    Later(c1, t, rows), RawInt(a), RawInt(b))
                      IN  c3.err = OK => c3.reading_list = reading_list

\* Two books in the order 2, 1 are swapped and swapped back.
C15_Witness ==
    LET c1 == swap_books_in_reading_list(Start, RawInt(1), RawInt(2))
    IN  /\ reading_list = <<2, 1>>
        /\ c1.reading_list = <<1, 2>>
        /\ swap_books_in_reading_list(c1, RawInt(1), RawInt(2)).err = OK

\* C16 as stated: swap(id, id) fails with SelfSwap whatever the list holds,
\* also when the list is empty and when id is not in the list.
C16_SelfSwapAlways ==
    \A id \in IdArgs :
        swap_books_in_reading_list(Start, RawInt(id), RawInt(id)).err = "SelfSwap"

\* C16 as amended: swap(id, id) always fails and leaves the list unchanged;
\* it fails with SelfSwap when id is in the list and the cache or the store
\* resolves it, with EmptyCollection when the list is empty, with
\* IdNotInCollection when the list is not empty and id is not in it, and with
\* IdNotInStore when id is in the list and does not resolve.
C16_SelfSwapWhenPresent ==
    \A id \in IdArgs :
        LET c == swap_books_in_reading_list(Start, RawInt(id), RawInt(id))
        IN  /\ c.reading_list = reading_list
            /\ c.err = IF Len(reading_list) = 0 THEN "EmptyCollection"
                       ELSE IF ~InList(reading_list, id) THEN "IdNotInCollection"
                       ELSE IF Resolves(Start, id) THEN "SelfSwap"
                       ELSE "IdNotInStore"

\* A book in the list is swapped with itself, another id is not in the list.
C16_Witness ==
    /\ Len(reading_list) = 1
    /\ swap_books_in_reading_list(
           Start, RawInt(reading_list[1]), RawInt(reading_list[1])).err = "SelfSwap"

\* What a move of id leaves: the same length, the other ids in the order they
\* had, and id at position n.
MovedTo(c, id, n) ==
    /\ c.err = OK
    /\ Len(c.reading_list) = Len(reading_list)
    /\ c.reading_list[n] = id
    /\ Without(c.reading_list, id) = Without(reading_list, id)

\* A call failed with the error e and left the list as it was.
FailedWith(c, e) == c.err = e /\ c.reading_list = reading_list

\* The error of a call given an id that is not in the list.
AbsentError == IF Len(reading_list) = 0 THEN "EmptyCollection" ELSE "IdNotInCollection"

PositionArgs ==
    {RawInt(n) : n \in Positions} \cup {RawStr(n) : n \in Positions} \cup {RawJunk}

\* C20: validatePosition(n) succeeds and returns n exactly when n parses to an
\* integer with 1 <= n <= the number of ids in the list; for every other
\* integer and for every input that does not parse it fails with
\* InvalidPosition, so on an empty list every position is invalid.  The list
\* and the selection number are left as they were.
C20_ValidatePositionExactlyInRange ==
    \A raw \in PositionArgs :
        LET c == validate_selection_number(Start, raw)
        IN  /\ IF raw.t # "junk" /\ 1 <= raw.v /\ raw.v <= Len(reading_list)
               THEN c.err = OK /\ c.ret = raw.v
               ELSE c.err = "InvalidPosition"
            /\ c.reading_list = reading_list
            /\ c.current_selection_number = current_selection_number

\* A list of one book, for which 1 is a position and 2 is not.
C20_Witness ==
    /\ Len(reading_list) = 1
    /\ validate_selection_number(Start, RawInt(1)).err = OK

\* C21: length() returns the number of ids in the list, not a page total, in
\* every reachable state, and this count is the upper bound that
\* validatePosition accepts, that gotoRandom hands to the provider and that
\* the circular advance of readCurrent wraps at.
C21_LengthIsTheCount ==
    /\ get_reading_list_length(Start).err = OK
    /\ get_reading_list_length(Start).ret = Len(reading_list)
    /\ \A raw \in PositionArgs :
          validate_selection_number(Start, raw).err = OK <=>
              (raw.t # "junk" /\ 1 <= raw.v /\ raw.v <= Len(reading_list))
    /\ \A rnd \in RandomAnswers :
          Len(reading_list) > 0 =>
              go_to_random_selection(Start, rnd).asked = <<Len(reading_list)>>
    /\ \A f \in FailPoints :
          LET c == read_current_book(Start, f)
          IN  (CursorInList /\ c.err = OK) =>
                  c.current_selection_number =
                      (current_selection_number % Len(reading_list)) + 1

\* Every id in the list resolves through the cache or the store.
AllResolve == \A id \in Ids(Start) : Resolves(Start, id)

\* The sum of getByPosition(i).length for i = from..length(), the calls made
\* one after the other.
RECURSIVE PagesByPosition(_, _, _)
PagesByPosition(c, from, total) ==
    IF from > Len(c.reading_list) THEN total
    ELSE LET d == get_book_by_selection_number(c, RawInt(from))
         IN  PagesByPosition(d, from + 1, total + d.ret.length)

\* C22: totalPages() equals the sum over i in [1, length()] of the length of
\* the item getByPosition(i) returns (every id resolving); on an empty list it
\* returns 0 without error.
C22_TotalPagesIsSumByPosition ==
    LET c == get_reading_list_page_count(Start)
    IN  /\ AllResolve => c.err = OK /\ c.ret = PagesByPosition(Start, 1, 0)
        /\ Len(reading_list) = 0 => c.err = OK /\ c.ret = 0
        /\ c.reading_list = reading_list
        /\ c.current_selection_number = current_selection_number

\* Two books, both resolving, whose pages are summed.
C22_Witness ==
    /\ Len(reading_list) = NumBooks
    /\ AllResolve
    /\ get_reading_list_page_count(Start).ret > PageLength(reading_list[1])

\* What validate_book_id is handed: integers from -1 up, strings of digits and
\* a string that is no number.
IdInputs ==
    {RawInt(n) : n \in (-1)..NumBooks} \cup {RawStr(n) : n \in IdArgs} \cup {RawJunk}

\* C23: validateId checks in a fixed order and reports the first failure:
\* InvalidId when the input is no integer or is negative; otherwise
\* IdNotInCollection when membership is required and the id is not in the
\* list, the store not being called; otherwise IdNotInStore when the lookup
\* through the cache and the store fails; otherwise it returns the integer.
C23_ValidateIdOrder ==
    \A raw \in IdInputs, chk \in BOOLEAN :
        LET c == validate_book_id(Start, raw, chk)
        IN  IF raw.t = "junk" \/ raw.v < 0
            THEN c.err = "InvalidId" /\ c.fetched = << >>
            ELSE IF chk /\ ~InList(reading_list, raw.v)
            THEN c.err = "IdNotInCollection" /\ c.fetched = << >>
            ELSE IF ~Resolves(Start, raw.v)
            THEN c.err = "IdNotInStore"
            ELSE c.err = OK /\ c.ret = raw.v

\* An id of the list no longer resolves, and another id is neither in the
\* list nor in the store.
C23_Witness ==
    /\ \E id \in Ids(Start) : ~Resolves(Start, id)
    /\ \E id \in BookIds : ~InList(reading_list, id) /\ ~Resolves(Start, id)

\* A call on an empty list failed before anything else was done.
C24_Refused(op, c) ==
    op \notin {"add", "clear", "length", "totalPages"} =>
        /\ c.err = "EmptyCollection"
        /\ c.fetched = << >>
        /\ c.asked = << >>
        /\ c.reads = << >>
        /\ C3_Unchanged(c)

\* C24: on an empty list removeById, removeByPosition, moveToBeginning,
\* moveToEnd, moveToPosition, swap, getAll, getByPosition, getById,
\* getCurrent, goto, gotoRandom, readCurrent, readAll, readRest and rewind fail
\* with EmptyCollection whatever their arguments, no id or position being
\* validated and neither the store nor the randomness provider being called,
\* and leave the list and the selection number as they were.
C24_EmptyListRefusesFirst ==
    Len(reading_list) = 0 =>
        /\ EveryCall(C24_Refused)
        /\ \A rnd \in RandomAnswers :
              C24_Refused("gotoRandom", go_to_random_selection(Start, rnd))

\* The list was emptied with the selection number at 2 and books in the cache.
C24_Witness ==
    /\ Len(reading_list) = 0
    /\ current_selection_number = 2
    /\ DOMAIN book_cache # {}

\* C25: clear() always succeeds, on an empty list as on one that is not, and
\* leaves the list empty.
C25_ClearAlwaysEmpties ==
    LET c == clear_reading_list(Start)
    IN  c.err = OK /\ c.reading_list = << >>

\* clear() is called on an empty list after books were added and removed.
C25_Witness ==
    /\ Len(reading_list) = 0
    /\ DOMAIN book_cache = BookIds
    /\ clear_reading_list(Start).err = OK

\* A call changed nothing but the selection number.
OnlyCursorMay(c) ==
    /\ c.reading_list = reading_list
    /\ c.book_cache = book_cache
    /\ c.ttl = ttl
    /\ c.fetched = << >>
    /\ c.reads = << >>

\* C26: goto(n) on a list that is not empty sets the selection number to n
\* when 1 <= n <= length and changes nothing else; for n outside that range
\* it fails with InvalidPosition and the selection number stays as it was.
C26_GotoSetsCursorOrFails ==
    \A n \in Positions :
        LET c == go_to_selection_number(Start, RawInt(n))
        IN  Len(reading_list) > 0 =>
                /\ OnlyCursorMay(c)
                /\ IF 1 <= n /\ n <= Len(reading_list)
                   THEN c.err = OK /\ c.current_selection_number = n
                   ELSE /\ c.err = "InvalidPosition"
                        /\ c.current_selection_number = current_selection_number

\* goto(2) moves the selection from the first to the second of two books.
C26_Witness ==
    /\ Len(reading_list) = NumBooks
    /\ current_selection_number = 1
    /\ go_to_selection_number(Start, RawInt(2)).current_selection_number = 2

\* C27: gotoRandom() on a list that is not empty calls the randomness
\* provider once, with the number of ids in the list as upper bound, and sets
\* the selection number to what it returns; if the provider fails, the
\* failure is passed on, the provider is not called again and the selection
\* number stays as it was.
C27_GotoRandomAsksOnceWithCount ==
    \A rnd \in RandomAnswers :
        LET c == go_to_random_selection(Start, rnd)
        IN  Len(reading_list) > 0 =>
                /\ c.asked = <<Len(reading_list)>>
                /\ c.reading_list = reading_list
                /\ IF rnd = 0
                   THEN /\ c.err = "ProviderError"
                        /\ c.current_selection_number = current_selection_number
                   ELSE c.err = OK /\ c.current_selection_number = rnd

\* C28: rewind() on a list that is not empty sets the selection number to 1
\* from any value it had, also one greater than the length, and leaves the
\* list unchanged.
C28_RewindSetsCursorToOne ==
    LET c == rewind_reading_list(Start)
    IN  Len(reading_list) > 0 =>
            /\ c.err = OK
            /\ c.current_selection_number = 1
            /\ OnlyCursorMay(c)

\* rewind() is called with the selection number past the end of the list.
C28_Witness ==
    /\ Len(reading_list) > 0
    /\ current_selection_number > Len(reading_list)
    /\ rewind_reading_list(Start).current_selection_number = 1

\* C29: on a list that is not empty (every id resolving) getAll() returns one
\* item per id, in list order; getByPosition(n) for 1 <= n <= length returns
\* the item whose id is at position n; getById(id) returns the item with that
\* id when id is in the list and fails with IdNotInCollection when it is not;
\* none of them changes the list or the selection number.
C29_GettersReturnItemsInOrder ==
    Len(reading_list) > 0 =>
        /\ LET c == get_all_books(Start)
           IN  /\ C3_Unchanged(c)
               /\ AllResolve =>
                     /\ c.err = OK
                     /\ Len(c.ret) = Len(reading_list)
                     /\ \A i \in 1..Len(reading_list) : c.ret[i].id = reading_list[i]
        /\ \A n \in 1..Len(reading_list) :
              LET c == get_book_by_selection_number(Start, RawInt(n))
              IN  /\ C3_Unchanged(c)
                  /\ Resolves(Start, reading_list[n]) =>
                        c.err = OK /\ c.ret.id = reading_list[n]
        /\ \A id \in IdArgs :
              LET c == get_book_by_book_id(Start, RawInt(id))
              IN  /\ C3_Unchanged(c)
                  /\ IF ~InList(reading_list, id) THEN c.err = "IdNotInCollection"
                     ELSE Resolves(Start, id) => c.err = OK /\ c.ret.id = id

\* Two books in the order 2, 1 are listed, one of them fetched again after
\* its entry expired.
C29_Witness ==
    /\ reading_list = <<2, 1>>
    /\ get_all_books(Start).err = OK
    /\ get_all_books(Start).fetched # << >>

\* C30: the set of ids that have a cache entry never shrinks: an id that has
\* an entry, fresh or expired, has one after every step, removeById,
\* removeByPosition and clear included.
C30_CacheEntriesNeverRemoved == [][DOMAIN book_cache \subseteq DOMAIN book_cache']_vars

\* A book that was removed from the list still has its cache entry, expired.
C30_Witness ==
    \E id \in DOMAIN book_cache : ~InList(reading_list, id) /\ ~CacheFresh(Start, id)

\* A call left the selection number as it was.
C34_CursorKept(op, c) ==
    op \in {"add", "clear", "moveToBeginning", "moveToEnd", "moveToPosition", "swap"} =>
        c.current_selection_number = current_selection_number

\* C34: add, clear, moveToBeginning, moveToEnd, moveToPosition and swap never
\* change the selection number, whether they succeed or fail; clear() does
\* not reset it, so after clear() and then add() it still has the value it
\* had before the clear.
C34_MutatorsKeepCursor ==
    /\ EveryCall(C34_CursorKept)
    /\ \A b \in RawIds :
          add_book_to_reading_list(clear_reading_list(Start), b).current_selection_number =
              current_selection_number

\* With the selection on the second of two books, clear() and add() leave one
\* book and the selection number 2.
C34_Witness ==
    LET c == add_book_to_reading_list(clear_reading_list(Start), RawInt(1))
    IN  /\ Len(reading_list) = NumBooks
        /\ current_selection_number = 2
        /\ c.err = OK
        /\ c.reading_list = <<1>>
        /\ c.current_selection_number = 2

\* The list is not empty and the selection number is past its end.
CursorStale == Len(reading_list) > 0 /\ current_selection_number > Len(reading_list)

\* The context of the next call after the call that left c.
After(c) == [c EXCEPT !.err = OK, !.ret = 0, !.reads = << >>, !.fetched = << >>,
                      !.asked = << >>]

\* readCurrent() and getCurrent() fail in the context c, reading nothing.
CurrentFails(c) ==
    /\ \A f \in FailPoints :
          /\ read_current_book(c, f).err # OK
          /\ read_current_book(c, f).reads = << >>
    /\ get_current_book(c).err # OK

\* After a call other than goto, gotoRandom, rewind and readAll, and unless
\* an add made the list long enough, readCurrent() and getCurrent() still
\* fail.
C35_StillFails(op, c) ==
    (/\ op \notin {"goto", "gotoRandom", "rewind", "readAll"}
     /\ Len(c.reading_list) < c.current_selection_number) => CurrentFails(After(c))

\* C35: with a list that is not empty and a selection number greater than its
\* length, readCurrent() and getCurrent() fail with InvalidPosition, no read
\* count is incremented and the selection number stays; and they still fail
\* after any call that is not goto, gotoRandom, rewind or readAll, unless the
\* list has grown to at least that many ids.
C35_StaleCursorFailsUntilMoved ==
    CursorStale =>
        /\ \A f \in FailPoints :
              LET c == read_current_book(Start, f)
              IN  /\ c.err = "InvalidPosition"
                  /\ c.reads = << >>
                  /\ C3_Unchanged(c)
        /\ get_current_book(Start).err = "InvalidPosition"
        /\ C3_Unchanged(get_current_book(Start))
        /\ EveryCall(C35_StillFails)

\* One book is left of two and the selection number is still 2.
C35_Witness ==
    /\ Len(reading_list) = 1
    /\ current_selection_number = 2
    /\ read_current_book(Start, 0).err = "InvalidPosition"

\* C36: with a list that is not empty and a selection number greater than its
\* length, readRest() returns without error having made no readCurrent step:
\* no read count is incremented and the selection number stays as it is.
C36_StaleCursorReadRestReadsNothing ==
    CursorStale =>
        \A f \in FailPoints :
            LET c == read_rest_of_reading_list(Start, f)
            IN  /\ c.err = OK
                /\ c.reads = << >>
                /\ c.fetched = << >>
                /\ C3_Unchanged(c)

\* readRest() is called with one book in the list and the selection number
\* past it.
C36_Witness ==
    /\ Len(reading_list) = 1
    /\ current_selection_number > Len(reading_list)
    /\ read_rest_of_reading_list(Start, 0).err = OK

\* How often x occurs in s.
Count(s, x) == Cardinality({i \in 1..Len(s) : s[i] = x})

\* C37: from a list of length L > 0 and a selection number c in [1, L], L
\* readCurrent() calls in a row that all succeed bring the selection number
\* back to c and increment the read count of every id in the list exactly
\* once, starting with the book at c and going round.
C37_FullRoundOfReadCurrent ==
    LET L == Len(reading_list)
        c == ReadTimes(Start, L, 0)
    IN  (CursorInList /\ c.err = OK) =>
            /\ c.current_selection_number = current_selection_number
            /\ Len(c.reads) = L
            /\ \A id \in Ids(Start) : Count(c.reads, id) = 1
            /\ \A i \in 1..L :
                  c.reads[i] = reading_list[((current_selection_number + i - 2) % L) + 1]
            /\ c.reading_list = reading_list

\* Two books are read in a row starting from the second.
C37_Witness ==
    /\ Len(reading_list) = NumBooks
    /\ current_selection_number = 2
    /\ ReadTimes(Start, NumBooks, 0).err = OK
    /\ ReadTimes(Start, NumBooks, 0).reads[1] = reading_list[2]

\* C38: in every reachable state every id in the list has a cache entry,
\* fresh or expired.
C38_ListedIdsAreCached ==
    /\ Ids(Start) \subseteq DOMAIN book_cache
    /\ Ids(Start) \subseteq DOMAIN ttl

\* A book in the list has an expired entry and is gone from the store.
C38_Witness ==
    \E id \in Ids(Start) : id \in DOMAIN ttl /\ ttl[id] <= now /\ id \notin db

\* id has an entry whose expiry is later than the clock, or the store holds it.
FreshOrStored(id) ==
    \/ id \in DOMAIN book_cache /\ id \in DOMAIN ttl /\ ttl[id] > now
    \/ id \in db

\* The outcome of a call that looks id up: success exactly when it resolves.
LookupDecides(c, id, e) == IF FreshOrStored(id) THEN c.err = OK ELSE c.err = e

\* C39: a call that resolves an id succeeds in its lookup exactly when the id
\* has a fresh cache entry or the store holds it: add of an id not in the
\* list, and getById, the moves, swap, removeById of ids in the list,
\* fail with IdNotInStore otherwise, and readCurrent with the not-found
\* error of the lookup.  While an entry is fresh add(id) succeeds although
\* the book is gone from the store, and from the expiry on it fails with
\* IdNotInStore.
C39_LookupSucceedsIffFreshOrStored ==
    /\ \A id \in BookIds :
          IF ~InList(reading_list, id)
          THEN /\ LookupDecides(add_book_to_reading_list(Start, RawInt(id)), id, "IdNotInStore")
               /\ (id \in DOMAIN ttl /\ id \notin db) =>
                     \A t \in LaterTimes :
                         add_book_to_reading_list(Later(Start, t, db), RawInt(id)).err =
                             IF t < ttl[id] THEN OK ELSE "IdNotInStore"
          ELSE /\ LookupDecides(get_book_by_book_id(Start, RawInt(id)), id, "IdNotInStore")
               /\ LookupDecides(remove_book_by_book_id(Start, RawInt(id)), id, "IdNotInStore")
               /\ LookupDecides(move_book_to_beginning(Start, RawInt(id)), id, "IdNotInStore")
               /\ LookupDecides(move_book_to_end(Start, RawInt(id)), id, "IdNotInStore")
               /\ LookupDecides(
                      move_book_to_selection_number(Start, RawInt(id), RawInt(1)),
                      id, "IdNotInStore")
               /\ \A other \in Ids(Start) \ {id} :
                     FreshOrStored(other) =>
                         LookupDecides(
                             swap_books_in_reading_list(Start, RawInt(id), RawInt(other)),
                             id, "IdNotInStore")
    /\ CursorInList =>
          LookupDecides(read_current_book(Start, 0),
                        reading_list[current_selection_number], "NotFound")

\* A book not in the list has a fresh entry and is gone from the store.
C39_Witness ==
    \E id \in DOMAIN ttl :
        /\ ~InList(reading_list, id)
        /\ ttl[id] > now
        /\ id \notin db
        /\ add_book_to_reading_list(Start, RawInt(id)).err = OK

(***************************************************************************)
(* The ring.                                                               *)
(***************************************************************************)

\* The Boxer objects a caller may hand to enter_ring.
BoxerArgs == {b \in RingInputs : b.kind = "Boxer"}

\* C31: the ring holds at most two boxers in every reachable state:
\* enter_ring(boxer) on a ring that holds two boxers fails with the "ring is
\* full" error and leaves the ring as it was, and on a ring that holds fewer
\* it appends the boxer.
C31_RingHoldsAtMostTwo ==
    /\ Len(ring) <= 2
    /\ \A boxer \in BoxerArgs :
           LET c == enter_ring(RingStart, boxer)
           IN  IF Len(ring) >= 2
               THEN c.err = "RingFull" /\ c.ring = ring
               ELSE c.err = OK /\ c.ring = Append(ring, boxer)

\* Two different boxers have entered: the ring is full.
C31_Witness == Len(ring) = 2 /\ ring[1] # ring[2]

\* The updates of the boxers table a call has made, seen in the rows: how
\* often boxer_id has fought and won more than before the call.
FightsGained(c, boxer_id) == c.boxers[boxer_id].fights - boxers[boxer_id].fights
WinsGained(c, boxer_id) == c.boxers[boxer_id].wins - boxers[boxer_id].wins

\* The call has recorded one win for winner, one loss for loser, nothing else.
OneWinOneLoss(c, winner, loser) ==
    /\ c.stats = << <<winner.id, "win">>, <<loser.id, "loss">> >>
    /\ DOMAIN c.boxers = DOMAIN boxers
    /\ \A id \in DOMAIN boxers :
           /\ WinsGained(c, id) = (IF id = winner.id THEN 1 ELSE 0)
           /\ FightsGained(c, id)
                  = (IF id = winner.id THEN 1 ELSE 0) + (IF id = loser.id THEN 1 ELSE 0)

\* C32: fight() succeeds only from a ring of two boxers.  With fewer it fails,
\* records no stats and leaves the ring as it was.  When it succeeds it has
\* recorded exactly one win, for the boxer whose name it returns, and one loss,
\* for the other boxer of the ring, and the ring is empty.
C32_FightNeedsTwoAndRecordsOneWinOneLoss ==
    \A rnd \in RandomFractions :
        LET c == fight(RingStart, rnd)
        IN  /\ c.err = OK => Len(ring) = 2
            /\ Len(ring) < 2 =>
                   /\ c.err = "NotEnoughBoxers"
                   /\ c.stats = << >>
                   /\ c.boxers = boxers
                   /\ c.ring = ring
            /\ c.err = OK =>
                   /\ c.ring = << >>
                   /\ \E w \in 1..2 :
                          /\ c.ret = ring[w].name
                          /\ OneWinOneLoss(c, ring[w], ring[3 - w])

\* A fight between two different boxers is over: the ring is empty, one boxer
\* has a win of one fight, another has fought once and not won.
C32_Witness ==
    /\ ring = << >>
    /\ \E w, l \in DOMAIN boxers :
           /\ w # l
           /\ boxers[w] = [fights |-> 1, wins |-> 1]
           /\ boxers[l] = [fights |-> 1, wins |-> 0]

(***************************************************************************)
(* Two callers of add.                                                     *)
(***************************************************************************)

\* Both callers are past the duplicate check with the id book_id and neither
\* has appended it.
BothPassedCheck(book_id) ==
    \A t \in Callers :
        /\ pc[t] \in {"lookup", "append"}
        /\ frame[t].book_id = book_id

\* What caller t has left to do, run from the context c.
RestOfAdd(c, t) ==
    IF pc[t] = "append" THEN add_append(c, frame[t].book)
    ELSE LET d == add_lookup(c, frame[t].book_id)
         IN  IF d.err # OK THEN d ELSE add_append(d, d.ret)

\* C33: the duplicate check and the append of add are two steps.  From every
\* state in which both callers have passed the check with the same id and
\* neither has appended, the two callers, run to their ends one after the
\* other, both succeed when the id still resolves, and the list holds the id
\* twice more than before.
C33_BothPassTheCheckBothAppend ==
    \A book_id \in BookIds :
        BothPassedCheck(book_id) /\ Resolves(Start, book_id) =>
            LET first == RestOfAdd(Start, "A")
                second == RestOfAdd(first, "B")
            IN  /\ first.err = OK
                /\ second.err = OK
                /\ second.reading_list = reading_list \o <<book_id, book_id>>

\* The interleaving has happened: both callers of add have returned without
\* an exception for the same id, and the list holds that id twice.
C33_Witness ==
    /\ \A t \in Callers : pc[t] = "done" /\ frame[t].err = OK
    /\ frame["A"].book_id = frame["B"].book_id
    /\ Count(reading_list, frame["A"].book_id) = 2

====
